---- MODULE Spec2Model ----
(***************************************************************************)
(* The Codex-Synaptic agent: the memory repository (Codex / MockCodex,     *)
(* src/python/src/codex_synaptic/codex.py and codex_mock.py) and the       *)
(* cognitive cycle on top of it (SynapticLoop / MockSynapticLoop,          *)
(* src/python/src/codex_synaptic/synaptic_loop.py and                      *)
(* synaptic_loop_mock.py).  The two cycle classes have the same code but   *)
(* for the repository class they construct; the two repository classes     *)
(* differ in the embedding provider only.                                  *)
(*                                                                         *)
(* A text is a sequence of one-character strings.  Every method is a pure  *)
(* operator over the values it reads, returning the values it writes and   *)
(* how the call ended; one action per public operation applies it.  The    *)
(* embedding provider and the vector index are the environment: a call of  *)
(* either may raise, which an action draws as a fault.                     *)
(*                                                                         *)
(* Spec is the agent with its repository; RepoSpec is one repository used  *)
(* on its own; SharedSpec is two repositories on one storage location;     *)
(* VariantSpec is the storage location used by the Codex classes of        *)
(* src/codex.py and src/python/codex.py, one after the other.              *)
(***************************************************************************)
EXTENDS Naturals, Integers, Sequences, FiniteSets, TLC

VARIABLES
    collection,         \* the persistent collection "codex_memories", in insertion order
    nextId,             \* ids generated so far (uuid4: every id is fresh)
    beliefs,            \* SynapticLoop.beliefs
    current_intention,  \* SynapticLoop.current_intention
    last,               \* the last call: what was called, how it ended, what it did
    hist,               \* texts of the full cycles run since the construction over an
                        \* empty repository, while nothing else has touched the state
    hash,               \* the running interpreter's string hash, as far as it is used
    cleared,            \* ids of the records that clear_memories has removed
    named,              \* id of the collection that the name "codex_memories" is
                        \* bound to at the storage location, 0 when to none
    created,            \* collections created at the storage location so far
    handle,             \* per repository instance: the collection its
                        \* self.collection refers to
    pc,                 \* per repository instance: where it is in clear_memories
    embedding_model,    \* self.embedding_model of the repository that is open
    ties                \* which of two equally near records the index returns first

\* what is fixed when a repository is constructed
env == <<hash, embedding_model, ties>>

\* what changes only when two instances use one storage location
shared == <<named, created, handle, pc>>

vars == <<collection, nextId, beliefs, current_intention, last, hist, hash,
          cleared, named, created, handle, pc, embedding_model, ties>>

(***************************************************************************)
(* Bounds and inputs                                                       *)
(***************************************************************************)
\* ids (successful inserts) over one behaviour
MaxAdds == 2

\* repository instances opened on one storage location
Instances == {1, 2}

\* collections made at one storage location over one behaviour
MaxCollections == 2

Whitespace == {" ", "\t"}

Empty == <<>>
Spaces == <<" ", "\t">>
Hello == <<"H", "e", "l", "l", "o">>
HelloAgain == <<"H", "e", "l", "l", "o", " ", "a", "g", "a", "i", "n">>

LowerHello == <<"h", "e", "l", "l", "o">>
Again == <<"a", "g", "a", "i", "n">>

Texts == {Empty, Spaces, Hello, HelloAgain}

\* the contents and queries given to a repository that is used on its own
Contents == {Spaces, Hello, LowerHello, HelloAgain}

TopKs == {0, 1, 5}

\* the top_k given to a repository that is used on its own
RepoTopKs == {-1, 0, 1, 5}

\* what the embedding provider or the index may do to an add_memory call
AddFaults == {"none", "embed", "store"}

\* what the embedding provider or the index may do to a retrieve_memory call
RetrieveFaults == {"none", "embed", "search"}

\* what can go wrong in the count that _deliberate reads: collection.count
CountFaults == {"none", "count"}

(***************************************************************************)
(* Text helpers: str.strip, str.lower, str.split                           *)
(***************************************************************************)
RECURSIVE lstrip(_)
lstrip(t) ==
    IF t # <<>> /\ Head(t) \in Whitespace THEN lstrip(Tail(t)) ELSE t

RECURSIVE rstrip(_)
rstrip(t) ==
    IF t # <<>> /\ t[Len(t)] \in Whitespace
    THEN rstrip(SubSeq(t, 1, Len(t) - 1))
    ELSE t

\* a plausible slip: the input is taken as it comes
strip_nothing(t) == t

strip(t) == rstrip(lstrip(t))

lower_char(c) ==
    CASE c = "H" -> "h"
      [] OTHER -> c

lower(t) == [i \in 1..Len(t) |-> lower_char(t[i])]

\* the first word of a text that starts with a non-blank character
RECURSIVE first_word(_)
first_word(t) ==
    IF t = <<>> \/ Head(t) \in Whitespace
    THEN <<>>
    ELSE <<Head(t)>> \o first_word(Tail(t))

RECURSIVE split(_)
split(t) ==
    LET s == lstrip(t)
        w == first_word(s)
    IN  IF s = <<>>
        THEN <<>>
        ELSE <<w>> \o split(SubSeq(s, Len(w) + 1, Len(s)))

\* MockEmbeddingModel.embedding_dim
embedding_dim == 384

(***************************************************************************)
(* The embedding provider.  MockEmbeddingModel.encode writes, for every    *)
(* word of the lower-cased text, count / len(words) at the position        *)
(* hash(word) % embedding_dim (a later word overwrites an earlier one at   *)
(* the same position), adds (hash(text) % 1000) / 10000 * sin(0.1 i) to    *)
(* the first 50 coordinates, and scales the vector to length 1.  Only the  *)
(* direction of the vector counts, so it is kept times len(words): the     *)
(* counts at the words' positions, and the perturbation as one coordinate  *)
(* of its own, in its own unit (the words' positions are taken outside     *)
(* the first 50).  Equal vectors are equal here and unequal ones unequal.  *)
(* hash is the interpreter's str hash: fixed while a process runs, chosen  *)
(* anew when a process starts.                                             *)
(***************************************************************************)
\* two tables a process may run with: no two strings agree in position or
\* perturbation; "Hello" and "hello" agree in hash(text) % 1000
HashDistinct ==
    (Spaces :> 1003) @@ (LowerHello :> 2000) @@ (Again :> 3000)
        @@ (Hello :> 4001) @@ (HelloAgain :> 5002)

HashColliding == (Hello :> 6000) @@ HashDistinct

HashTables == {HashDistinct, HashColliding}

\* the loop "for word, count in word_counts.items(): embedding[pos] = ..."
\* over the first k words: each word is written once, where it first occurs
RECURSIVE written(_, _)
written(words, k) ==
    IF k = 0
    THEN <<>>
    ELSE LET word == words[k]
             count == Cardinality({i \in 1..Len(words) : words[i] = word})
             pos == hash[word] % embedding_dim
         IN  IF \E j \in 1..(k - 1) : words[j] = word
             THEN written(words, k - 1)
             ELSE (pos :> count) @@ written(words, k - 1)

encode(text) ==
    LET words == split(lower(text))
        content_hash == hash[text] % 1000
    IN  [at |-> written(words, Len(words)),
         noise |-> IF words = <<>> THEN content_hash
                                   ELSE content_hash * Len(words)]

RECURSIVE SumOver(_, _)
SumOver(f, S) ==
    IF S = {}
    THEN 0
    ELSE LET x == CHOOSE y \in S : TRUE
         IN  f[x] + SumOver(f, S \ {x})

Dot(a, b) ==
    LET common == DOMAIN a.at \cap DOMAIN b.at
    IN  SumOver([p \in common |-> a.at[p] * b.at[p]], common) + a.noise * b.noise

(***************************************************************************)
(* The embedding providers: the model that computes a vector and the       *)
(* length of the vectors it returns                                        *)
(***************************************************************************)
\* codex_mock.py: the word-hash vectors that encode computes above
MockEmbeddingModel == [model |-> "word hash", dim |-> embedding_dim]

\* src/codex.py
SentenceTransformer == [model |-> "all-MiniLM-L6-v2", dim |-> 384]

TopMockEmbeddingModel == [model |-> "md5", dim |-> 384]

\* src/python/codex.py
OpenAIEmbeddingModel == [model |-> "text-embedding-3-small", dim |-> 1536]

OpenAIMockEmbeddingModel == [model |-> "md5", dim |-> 1536]

(***************************************************************************)
(* Memory (memory_model.py) and the entry the collection keeps of it       *)
(***************************************************************************)
NoMetadata == <<>>

\* a plausible slip: the provenance that the Codex of src/codex.py writes
SensoryMetadata_added_by == [added_by |-> "synaptic_loop"]

SensoryMetadata == [type |-> "sensory_input", source |-> "user_input"]

Memory(id, content, embedding, metadata, timestamp) ==
    [id |-> id, content |-> content, embedding |-> embedding,
     metadata |-> metadata, timestamp |-> timestamp]

\* collection.add(ids, embeddings, documents, metadatas) with the metadata
\* {"timestamp": memory.timestamp, **memory.metadata}
Entry(memory) ==
    [id |-> memory.id,
     embedding |-> memory.embedding,
     document |-> memory.content,
     metadata |-> memory.metadata @@ [timestamp |-> memory.timestamp]]

(***************************************************************************)
(* The repository: add_memory, retrieve_memory, get_memory_count,          *)
(* clear_memories.  Each returns how the call ended (raised: "none" or the *)
(* exception) and the external calls it issued.                            *)
(***************************************************************************)
get_memory_count(coll) == Len(coll)

\* a plausible slip: a content that is stored already is not stored again
add_memory_once(coll, id, content, metadata, fault) ==
    IF strip(content) = <<>>
    THEN [raised |-> "ValueError", collection |-> coll, calls |-> <<>>]
    ELSE IF fault = "embed"
    THEN [raised |-> "Exception", collection |-> coll, calls |-> <<"encode">>]
    ELSE LET memory == Memory(id, content, encode(content), metadata, id)
         IN  IF fault = "store"
             THEN [raised |-> "Exception", collection |-> coll,
                   calls |-> <<"encode", "collection.add">>]
             ELSE [raised |-> "none",
                   collection |-> IF \E i \in 1..Len(coll) : coll[i].document = content
                                  THEN coll
                                  ELSE Append(coll, Entry(memory)),
                   memory |-> memory,
                   calls |-> <<"encode", "collection.add">>]

\* a plausible slip: the record is written before the failure is noticed
add_memory_partial(coll, id, content, metadata, fault) ==
    IF strip(content) = <<>>
    THEN [raised |-> "ValueError", collection |-> coll, calls |-> <<>>]
    ELSE IF fault = "embed"
    THEN [raised |-> "Exception", collection |-> coll, calls |-> <<"encode">>]
    ELSE LET memory == Memory(id, content, encode(content), metadata, id)
         IN  IF fault = "store"
             THEN [raised |-> "Exception",
                   collection |-> Append(coll, Entry(memory)),
                   calls |-> <<"encode", "collection.add">>]
             ELSE [raised |-> "none",
                   collection |-> Append(coll, Entry(memory)),
                   memory |-> memory,
                   calls |-> <<"encode", "collection.add">>]

\* a plausible slip: the id is derived from the content
add_memory_content_id(coll, id, content, metadata, fault) ==
    IF strip(content) = <<>>
    THEN [raised |-> "ValueError", collection |-> coll, calls |-> <<>>]
    ELSE IF fault = "embed"
    THEN [raised |-> "Exception", collection |-> coll, calls |-> <<"encode">>]
    ELSE LET memory == Memory(Len(content), content, encode(content), metadata, id)
         IN  IF fault = "store"
             THEN [raised |-> "Exception", collection |-> coll,
                   calls |-> <<"encode", "collection.add">>]
             ELSE [raised |-> "none",
                   collection |-> Append(coll, Entry(memory)),
                   memory |-> memory,
                   calls |-> <<"encode", "collection.add">>]

add_memory(coll, id, content, metadata, fault) ==
    IF strip(content) = <<>>
    THEN [raised |-> "ValueError", collection |-> coll, calls |-> <<>>]
    ELSE IF fault = "embed"
    THEN [raised |-> "Exception", collection |-> coll, calls |-> <<"encode">>]
    ELSE \* id: uuid4(), a fresh value; timestamp: time.time(), the creation tick
         LET memory == Memory(id, content, encode(content), metadata, id)
         IN  IF fault = "store"
             THEN [raised |-> "Exception", collection |-> coll,
                   calls |-> <<"encode", "collection.add">>]
             ELSE [raised |-> "none",
                   collection |-> Append(coll, Entry(memory)),
                   memory |-> memory,
                   calls |-> <<"encode", "collection.add">>]

\* the index's answer: the n nearest entries, most similar first.  The
\* vectors have length 1, so the nearest by the collection's distance are the
\* most similar by cosine.  An entry's similarity to q is Dot(q,e)/|e|,
\* compared as the pair <<Dot(q,e)^2, |e|^2>>.  The order of equally similar
\* entries is the index's own: by insertion, one way or the other.
TieOrders == {"earlier", "later"}

Similarity(q, e) == <<Dot(q, e) * Dot(q, e), Dot(e, e)>>

MoreSimilar(a, b) == a[1] * b[2] > b[1] * a[2]

\* the similarity to q of every entry, in insertion order
RECURSIVE Similarities(_, _)
Similarities(coll, q) ==
    IF coll = <<>>
    THEN <<>>
    ELSE <<Similarity(q, Head(coll).embedding)>> \o Similarities(Tail(coll), q)

query(coll, q, n) ==
    LET sim == Similarities(coll, q)
        first(j, i) == IF ties = "earlier" THEN j < i ELSE j > i
        rank(i) == 1 + Cardinality({j \in 1..Len(coll) :
                            \/ MoreSimilar(sim[j], sim[i])
                            \/ ~MoreSimilar(sim[i], sim[j]) /\ first(j, i)})
    IN  [k \in 1..n |-> coll[CHOOSE i \in 1..Len(coll) : rank(i) = k].document]

Min(a, b) == IF a <= b THEN a ELSE b

\* a plausible slip: top_k is not checked
retrieve_memory_any_top_k(coll, text, top_k, fault) ==
    IF strip(text) = <<>>
    THEN [raised |-> "ValueError", docs |-> <<>>, calls |-> <<>>]
    ELSE IF fault = "embed"
    THEN [raised |-> "Exception", docs |-> <<>>, calls |-> <<"encode">>]
    ELSE IF fault = "search" \/ Min(top_k, get_memory_count(coll)) <= 0
    THEN [raised |-> "Exception", docs |-> <<>>,
          calls |-> <<"encode", "collection.query">>]
    ELSE [raised |-> "none",
          docs |-> query(coll, encode(text), Min(top_k, get_memory_count(coll))),
          calls |-> <<"encode", "collection.query">>]

\* a plausible slip: top_k results are asked for whatever the count is, and
\* an index that holds fewer refuses
retrieve_memory_unclamped(coll, text, top_k, fault) ==
    IF strip(text) = <<>>
    THEN [raised |-> "ValueError", docs |-> <<>>, calls |-> <<>>]
    ELSE IF top_k <= 0
    THEN [raised |-> "ValueError", docs |-> <<>>, calls |-> <<>>]
    ELSE IF fault = "embed"
    THEN [raised |-> "Exception", docs |-> <<>>, calls |-> <<"encode">>]
    ELSE IF fault = "search" \/ top_k > get_memory_count(coll)
    THEN [raised |-> "Exception", docs |-> <<>>,
          calls |-> <<"encode", "collection.query">>]
    ELSE [raised |-> "none",
          docs |-> query(coll, encode(text), top_k),
          calls |-> <<"encode", "collection.query">>]

retrieve_memory(coll, text, top_k, fault) ==
    IF strip(text) = <<>>
    THEN [raised |-> "ValueError", docs |-> <<>>, calls |-> <<>>]
    ELSE IF top_k <= 0
    THEN [raised |-> "ValueError", docs |-> <<>>, calls |-> <<>>]
    ELSE IF fault = "embed"
    THEN [raised |-> "Exception", docs |-> <<>>, calls |-> <<"encode">>]
    ELSE IF fault = "search"
    THEN [raised |-> "Exception", docs |-> <<>>,
          calls |-> <<"encode", "collection.query">>]
    ELSE LET n_results == Min(top_k, get_memory_count(coll))
         IN  IF n_results <= 0
             THEN \* collection.query raises on n_results <= 0: raised again
                  [raised |-> "Exception", docs |-> <<>>,
                   calls |-> <<"encode", "collection.query">>]
             ELSE [raised |-> "none",
                   docs |-> query(coll, encode(text), n_results),
                   calls |-> <<"encode", "collection.query">>]

\* a plausible slip: the collection is opened again without being deleted
clear_memories_keeping(coll) == coll

clear_memories(coll) == <<>>

\* the ids of the stored records
Ids(coll) == {coll[i].id : i \in 1..Len(coll)}

\* one instance on the storage location: the name is bound to the first
\* collection made there and the instance's handle refers to it
OneInstance ==
    /\ named = 1
    /\ created = 1
    /\ handle = [i \in Instances |-> 1]
    /\ pc = [i \in Instances |-> "ready"]

(***************************************************************************)
(* The cognitive cycle: beliefs and intentions are the strings the code    *)
(* formats, kept as the template and its parameter.                        *)
(***************************************************************************)
\* f"The user recently said: {new_input}"
UserSaid(text) == [template |-> "The user recently said: ", text |-> text, n |-> 0]

\* f"I have {len(related_memories)} related memories about similar topics"
RelatedMemories(n) ==
    [template |-> "I have n related memories about similar topics",
     text |-> <<>>, n |-> n]

None == [template |-> "None", n |-> 0]

AwaitInput ==
    [template |-> "Await new sensory input to form beliefs and determine actions.",
     n |-> 0]

\* f"Formulate a response based on recent input and {memory_count} stored memories."
FormulateStored(n) ==
    [template |-> "Formulate a response based on recent input and n stored memories.",
     n |-> n]

FormulateRelated ==
    [template |-> "Formulate a response based on recent input and related memories.",
     n |-> 0]

\* a statement of the host's own, which no cycle derives
Stray == [template |-> "a statement of the host", text |-> <<>>, n |-> 0]

\* retrieve_memory(new_input, top_k=3) in _update_beliefs
ContextTopK == 3

\* a plausible slip: the beliefs are rebuilt from the memories found in the store
SynapticLoopInit_from_store(coll) ==
    [beliefs |-> {UserSaid(coll[i].document) : i \in 1..Len(coll)},
     current_intention |-> None]

\* SynapticLoop.__init__: Codex(codex_db_path) opens the collection that is
\* there (get_or_create_collection); beliefs and intention start empty
SynapticLoopInit(coll) == [beliefs |-> {}, current_intention |-> None]

\* a plausible slip: the context lookup is not guarded, its failure ends the call
update_beliefs_unguarded(b, coll, new_input, fault) ==
    LET b1 == b \cup {UserSaid(new_input)}
        r == retrieve_memory(coll, new_input, ContextTopK, fault)
    IN  IF r.raised = "none"
        THEN [beliefs |-> IF Len(r.docs) > 0
                          THEN b1 \cup {RelatedMemories(Len(r.docs))}
                          ELSE b1,
              raised |-> "none",
              steps |-> IF Len(r.docs) > 0
                        THEN <<"beliefs.add input", "retrieve_memory",
                               "beliefs.add context">>
                        ELSE <<"beliefs.add input", "retrieve_memory">>]
        ELSE [beliefs |-> b1,
              raised |-> r.raised,
              steps |-> <<"beliefs.add input", "retrieve_memory raised">>]

\* a plausible slip: the belief set is rebuilt from the new input
update_beliefs_replacing(b, coll, new_input, fault) ==
    LET b1 == {UserSaid(new_input)}
        r == retrieve_memory(coll, new_input, ContextTopK, fault)
    IN  IF r.raised = "none" /\ Len(r.docs) > 0
        THEN [beliefs |-> b1 \cup {RelatedMemories(Len(r.docs))},
              raised |-> "none",
              steps |-> <<"beliefs.add input", "retrieve_memory",
                          "beliefs.add context">>]
        ELSE [beliefs |-> b1,
              raised |-> "none",
              steps |-> <<"beliefs.add input", "retrieve_memory">>]

\* a plausible slip: the context belief counts the stored records instead of
\* the records the lookup returned
update_beliefs_total_count(b, coll, new_input, fault) ==
    LET b1 == b \cup {UserSaid(new_input)}
        r == retrieve_memory(coll, new_input, ContextTopK, fault)
    IN  IF r.raised = "none" /\ Len(r.docs) > 0
        THEN [beliefs |-> b1 \cup {RelatedMemories(get_memory_count(coll))},
              raised |-> "none",
              steps |-> <<"beliefs.add input", "retrieve_memory",
                          "beliefs.add context">>]
        ELSE [beliefs |-> b1,
              raised |-> "none",
              steps |-> <<"beliefs.add input", "retrieve_memory raised",
                          "print retrieve warning">>]

\* a plausible slip: only the context belief is added
update_beliefs_context_only(b, coll, new_input, fault) ==
    LET r == retrieve_memory(coll, new_input, ContextTopK, fault)
    IN  IF r.raised = "none" /\ Len(r.docs) > 0
        THEN [beliefs |-> b \cup {RelatedMemories(Len(r.docs))},
              raised |-> "none",
              steps |-> <<"retrieve_memory", "beliefs.add context">>]
        ELSE [beliefs |-> b,
              raised |-> "none",
              steps |-> <<"retrieve_memory raised", "print retrieve warning">>]

\* a plausible slip: the input belief carries the time of the input, so the
\* same text gives a new statement every time
update_beliefs_stamped(b, coll, new_input, fault) ==
    LET b1 == b \cup {[UserSaid(new_input) EXCEPT !.n = Len(coll)]}
        r == retrieve_memory(coll, new_input, ContextTopK, fault)
    IN  IF r.raised = "none" /\ Len(r.docs) > 0
        THEN [beliefs |-> b1 \cup {RelatedMemories(Len(r.docs))},
              raised |-> "none",
              steps |-> <<"beliefs.add input", "retrieve_memory",
                          "beliefs.add context">>]
        ELSE [beliefs |-> b1,
              raised |-> "none",
              steps |-> <<"beliefs.add input", "retrieve_memory raised",
                          "print retrieve warning">>]

\* a plausible slip: the related memories are looked up first
update_beliefs_retrieve_first(b, coll, new_input, fault) ==
    LET b1 == b \cup {UserSaid(new_input)}
        r == retrieve_memory(coll, new_input, ContextTopK, fault)
    IN  IF r.raised = "none"
        THEN IF Len(r.docs) > 0
             THEN [beliefs |-> b1 \cup {RelatedMemories(Len(r.docs))},
                   raised |-> "none",
                   steps |-> <<"retrieve_memory", "beliefs.add input",
                               "beliefs.add context">>]
             ELSE [beliefs |-> b1,
                   raised |-> "none",
                   steps |-> <<"retrieve_memory", "beliefs.add input">>]
        ELSE [beliefs |-> b,
              raised |-> "none",
              steps |-> <<"retrieve_memory raised", "print retrieve warning">>]

\* _update_beliefs
update_beliefs(b, coll, new_input, fault) ==
    LET b1 == b \cup {UserSaid(new_input)}
        r == retrieve_memory(coll, new_input, ContextTopK, fault)
    IN  IF r.raised = "none"
        THEN IF Len(r.docs) > 0
             THEN [beliefs |-> b1 \cup {RelatedMemories(Len(r.docs))},
                   raised |-> "none",
                   steps |-> <<"beliefs.add input", "retrieve_memory",
                               "beliefs.add context">>]
             ELSE [beliefs |-> b1,
                   raised |-> "none",
                   steps |-> <<"beliefs.add input", "retrieve_memory">>]
        ELSE \* except Exception: print a warning and go on
             [beliefs |-> b1,
              raised |-> "none",
              steps |-> <<"beliefs.add input", "retrieve_memory raised",
                          "print retrieve warning">>]

\* a plausible slip: the intention counts the beliefs, not the memories
deliberate_belief_count(b, coll) ==
    IF b = {}
    THEN AwaitInput
    ELSE IF Cardinality(b) > 0
         THEN FormulateStored(Cardinality(b))
         ELSE FormulateRelated

\* _deliberate
deliberate(b, coll) ==
    IF b = {}
    THEN AwaitInput
    ELSE LET memory_count == get_memory_count(coll)
         IN  IF memory_count > 0
             THEN FormulateStored(memory_count)
             ELSE FormulateRelated

\* a plausible slip: the result of _deliberate is not kept
run_cycle_dropping(b, coll, fault) ==
    IF b # {} /\ fault = "count"
    THEN [raised |-> "Exception", steps |-> <<"get_memory_count raised">>]
    ELSE [raised |-> "none",
          current_intention |-> None,
          steps |-> <<"get_memory_count", "current_intention =", "print state">>]

\* _run_cycle: the new intention (and _display_cognitive_state, which
\* prints).  _deliberate reads the count when there are beliefs, and an
\* exception of get_memory_count leaves both before the assignment.
run_cycle(b, coll, fault) ==
    IF b # {} /\ fault = "count"
    THEN [raised |-> "Exception", steps |-> <<"get_memory_count raised">>]
    ELSE [raised |-> "none",
          current_intention |-> deliberate(b, coll),
          steps |-> <<"get_memory_count", "current_intention =", "print state">>]

\* a plausible slip: the handler of a failed add_memory does not return
process_sensory_input_no_return(b, ci, coll, id, text, addFault, retrieveFault, countFault) ==
    IF strip(text) = <<>>
    THEN [beliefs |-> b, current_intention |-> ci, collection |-> coll,
          raised |-> "none", steps |-> <<"print empty warning">>]
    ELSE LET a == add_memory(coll, id, text, SensoryMetadata, addFault)
             u == update_beliefs(b, a.collection, text, retrieveFault)
             c == run_cycle(u.beliefs, a.collection, "none")
         IN  [beliefs |-> u.beliefs, current_intention |-> c.current_intention,
              collection |-> a.collection, raised |-> "none",
              steps |-> (IF a.raised # "none"
                         THEN <<"add_memory raised", "print store failure">>
                         ELSE <<"add_memory">>) \o u.steps \o c.steps]

\* process_sensory_input
process_sensory_input(b, ci, coll, id, text, addFault, retrieveFault, countFault) ==
    IF strip(text) = <<>>
    THEN \* print the warning and return
         [beliefs |-> b, current_intention |-> ci, collection |-> coll,
          raised |-> "none", steps |-> <<"print empty warning">>]
    ELSE LET a == add_memory(coll, id, text, SensoryMetadata, addFault)
         IN  IF a.raised # "none"
             THEN \* except Exception: print the failure and return
                  [beliefs |-> b, current_intention |-> ci,
                   collection |-> a.collection, raised |-> "none",
                   steps |-> <<"add_memory raised", "print store failure">>]
             ELSE LET u == update_beliefs(b, a.collection, text, retrieveFault)
                  IN  IF u.raised # "none"
                      THEN \* an exception leaving _update_beliefs leaves the call
                           [beliefs |-> u.beliefs, current_intention |-> ci,
                            collection |-> a.collection, raised |-> u.raised,
                            steps |-> <<"add_memory">> \o u.steps]
                      ELSE LET c == run_cycle(u.beliefs, a.collection, countFault)
                           IN  IF c.raised # "none"
                               THEN \* the exception leaves the call
                                    [beliefs |-> u.beliefs, current_intention |-> ci,
                                     collection |-> a.collection,
                                     raised |-> c.raised,
                                     steps |-> <<"add_memory">> \o u.steps \o c.steps]
                               ELSE [beliefs |-> u.beliefs,
                                     current_intention |-> c.current_intention,
                                     collection |-> a.collection, raised |-> "none",
                                     steps |-> <<"add_memory">> \o u.steps \o c.steps]

\* a plausible slip: the accessor hands out the set it keeps
get_beliefs_same_object(b) == [object |-> "self.beliefs", items |-> b]

\* get_beliefs: self.beliefs.copy(), a new set object with the same items
get_beliefs(b) == [object |-> "copy", items |-> b]

\* get_current_intention
get_current_intention(ci) == ci

\* a plausible slip: the clear resets the whole agent
clear_beliefs_and_intention(b, ci) == [beliefs |-> {}, current_intention |-> None]

\* clear_beliefs: self.beliefs.clear()
clear_beliefs(b, ci) == [beliefs |-> {}, current_intention |-> ci]

(***************************************************************************)
(* The state machine                                                       *)
(***************************************************************************)
Call(op, text, top_k, raised, steps, ret) ==
    [op |-> op, text |-> text, top_k |-> top_k, raised |-> raised,
     steps |-> steps, ret |-> ret]

Did(call, step) == \E i \in 1..Len(call.steps) : call.steps[i] = step

Fresh == [fresh |-> TRUE, cycles |-> <<>>]

Touched == [fresh |-> FALSE, cycles |-> <<>>]

Init ==
    /\ collection = <<>>
    /\ nextId = 0
    /\ beliefs = SynapticLoopInit(<<>>).beliefs
    /\ current_intention = SynapticLoopInit(<<>>).current_intention
    /\ last = Call("construct", <<>>, 0, "none", <<>>, <<>>)
    /\ hist = Fresh
    /\ hash = HashDistinct
    /\ cleared = {}
    /\ OneInstance
    /\ embedding_model = MockEmbeddingModel
    \* only records of one content are equally similar here
    /\ ties = "earlier"

\* a plausible slip: the client keeps the collection in memory only
\* (chromadb.Client() for chromadb.PersistentClient(path=db_path))
Construct_in_memory ==
    /\ UNCHANGED <<env, shared>>
    /\ cleared' = cleared \cup Ids(collection)
    /\ \E r \in {SynapticLoopInit(<<>>)} :
            /\ beliefs' = r.beliefs
            /\ current_intention' = r.current_intention
    /\ last' = Call("construct", <<>>, 0, "none", <<>>, <<>>)
    /\ hist' = Fresh
    /\ collection' = <<>>
    /\ UNCHANGED nextId

\* the agent is discarded and a new one is constructed on the same storage
Construct ==
    /\ UNCHANGED <<env, shared, cleared>>
    /\ \E r \in {SynapticLoopInit(collection)} :
            /\ beliefs' = r.beliefs
            /\ current_intention' = r.current_intention
    /\ last' = Call("construct", <<>>, 0, "none", <<>>, <<>>)
    /\ hist' = IF collection = <<>> THEN Fresh ELSE Touched
    /\ UNCHANGED <<collection, nextId>>

CallProcessSensoryInput ==
    /\ UNCHANGED <<env, shared, cleared>>
    /\ \E text \in Texts, addFault \in AddFaults :
      \* the lookup is only reached when the add has succeeded
      \E retrieveFault \in (IF addFault = "none" THEN RetrieveFaults ELSE {"none"}) :
      \* the count is read without a failure here; CycleSpec lets it fail
      \E r \in {process_sensory_input(beliefs, current_intention, collection,
                                      nextId, text, addFault, retrieveFault,
                                      "none")} :
        LET stored == Len(r.collection) > Len(collection)
            full == /\ Did(r, "add_memory")
                    /\ Did(r, "retrieve_memory")
                    /\ Did(r, "current_intention =")
        IN  /\ stored => nextId < MaxAdds
            /\ beliefs' = r.beliefs
            /\ current_intention' = r.current_intention
            /\ collection' = r.collection
            /\ nextId' = IF stored THEN nextId + 1 ELSE nextId
            /\ last' = Call("process_sensory_input", text, 0, r.raised, r.steps, <<>>)
            /\ hist' = IF r.steps = <<"print empty warning">>
                       THEN hist
                       ELSE IF full /\ hist.fresh
                       THEN [hist EXCEPT !.cycles = Append(@, text)]
                       ELSE Touched

CallGetBeliefs ==
    /\ UNCHANGED <<env, shared, cleared>>
    /\ last' = Call("get_beliefs", <<>>, 0, "none", <<>>, get_beliefs(beliefs))
    /\ UNCHANGED <<collection, nextId, beliefs, current_intention, hist>>

\* the host adds a statement to, or discards one from, the set that the
\* get_beliefs call just before returned; a set object that is self.beliefs
\* changes the agent's beliefs with it
MutateReturnedBeliefs ==
    /\ UNCHANGED <<env, shared, cleared>>
    /\ last.op = "get_beliefs"
    /\ \E x \in last.ret.items \cup {Stray}, how \in {"add", "discard"} :
         \E items \in {IF how = "add" THEN last.ret.items \cup {x}
                                       ELSE last.ret.items \ {x}} :
            /\ items # last.ret.items
            /\ last' = Call("mutate returned beliefs", <<>>, 0, "none", <<>>,
                            [last.ret EXCEPT !.items = items])
            /\ beliefs' = IF last.ret.object = "self.beliefs" THEN items ELSE beliefs
            /\ hist' = IF beliefs' = beliefs THEN hist ELSE Touched
    /\ UNCHANGED <<collection, nextId, current_intention>>

CallGetCurrentIntention ==
    /\ UNCHANGED <<env, shared, cleared>>
    /\ last' = Call("get_current_intention", <<>>, 0, "none", <<>>,
                    get_current_intention(current_intention))
    /\ UNCHANGED <<collection, nextId, beliefs, current_intention, hist>>

CallClearBeliefs ==
    /\ UNCHANGED <<env, shared, cleared>>
    /\ \E r \in {clear_beliefs(beliefs, current_intention)} :
            /\ beliefs' = r.beliefs
            /\ current_intention' = r.current_intention
    /\ last' = Call("clear_beliefs", <<>>, 0, "none", <<>>, <<>>)
    /\ hist' = Touched
    /\ UNCHANGED <<collection, nextId>>

\* the host calls the repository of the agent directly (agent.codex)
CallAddMemory ==
    /\ UNCHANGED <<env, shared, cleared>>
    /\ \E content \in Texts :
      \* the provider and the index are only reached with a valid content
      \E fault \in (IF strip(content) = <<>> THEN {"none"} ELSE AddFaults) :
      \E a \in {add_memory(collection, nextId, content, NoMetadata, fault)} :
        LET stored == a.raised = "none"
        IN  /\ stored => nextId < MaxAdds
            /\ collection' = a.collection
            /\ nextId' = IF stored THEN nextId + 1 ELSE nextId
            /\ last' = Call("add_memory", content, 0, a.raised, a.calls,
                            IF stored THEN a.memory ELSE <<>>)
            /\ hist' = Touched
            /\ UNCHANGED <<beliefs, current_intention>>

CallRetrieveMemory ==
    /\ UNCHANGED <<env, shared, cleared>>
    /\ \E text \in Texts, top_k \in TopKs :
      \* the provider and the index are only reached with valid arguments
      \E fault \in (IF strip(text) = <<>> \/ top_k <= 0
                    THEN {"none"} ELSE RetrieveFaults) :
      \E r \in {retrieve_memory(collection, text, top_k, fault)} :
            /\ last' = Call("retrieve_memory", text, top_k, r.raised, r.calls, r.docs)
            /\ UNCHANGED <<collection, nextId, beliefs, current_intention, hist>>

CallGetMemoryCount ==
    /\ UNCHANGED <<env, shared, cleared>>
    /\ last' = Call("get_memory_count", <<>>, 0, "none", <<>>,
                    get_memory_count(collection))
    /\ UNCHANGED <<collection, nextId, beliefs, current_intention, hist>>

CallClearMemories ==
    /\ UNCHANGED <<env, shared>>
    /\ cleared' = cleared \cup Ids(collection)
    /\ collection' = clear_memories(collection)
    /\ last' = Call("clear_memories", <<>>, 0, "none", <<>>, <<>>)
    /\ hist' = Touched
    /\ UNCHANGED <<nextId, beliefs, current_intention>>

Next ==
    \/ Construct
    \/ CallProcessSensoryInput
    \/ CallGetBeliefs
    \/ MutateReturnedBeliefs
    \/ CallGetCurrentIntention
    \/ CallClearBeliefs
    \/ CallAddMemory
    \/ CallRetrieveMemory
    \/ CallGetMemoryCount
    \/ CallClearMemories

Spec == Init /\ [][Next]_vars

(***************************************************************************)
(* The cognitive cycle on its own, over more inputs than in Spec and with  *)
(* every repository call of process_sensory_input able to fail, the count  *)
(* that _deliberate reads included                                         *)
(***************************************************************************)
\* inputs stored over one behaviour
MaxCycles == 4

CycleProcessSensoryInput ==
    /\ UNCHANGED <<env, shared, cleared>>
    /\ \E text \in Texts, addFault \in AddFaults :
      \* the lookup and the count are only reached when the add has succeeded
      \E retrieveFault \in (IF addFault = "none" THEN RetrieveFaults ELSE {"none"}) :
      \E countFault \in (IF addFault = "none" THEN CountFaults ELSE {"none"}) :
      \E r \in {process_sensory_input(beliefs, current_intention, collection,
                                      nextId, text, addFault, retrieveFault,
                                      countFault)} :
        LET stored == Len(r.collection) > Len(collection)
            full == /\ Did(r, "add_memory")
                    /\ Did(r, "retrieve_memory")
                    /\ Did(r, "current_intention =")
        IN  /\ stored => nextId < MaxCycles
            /\ beliefs' = r.beliefs
            /\ current_intention' = r.current_intention
            /\ collection' = r.collection
            /\ nextId' = IF stored THEN nextId + 1 ELSE nextId
            /\ last' = Call("process_sensory_input", text, 0, r.raised, r.steps, <<>>)
            /\ hist' = IF r.steps = <<"print empty warning">>
                       THEN hist
                       ELSE IF full /\ hist.fresh
                       THEN [hist EXCEPT !.cycles = Append(@, text)]
                       ELSE Touched

CycleNext ==
    \/ CycleProcessSensoryInput
    \/ CallClearBeliefs
    \/ Construct

CycleSpec == Init /\ [][CycleNext]_vars

(***************************************************************************)
(* The repository used on its own: one MockCodex, opened on an empty       *)
(* storage location by a process with either hash table                    *)
(***************************************************************************)
RepoCall(op, text, top_k, fault, raised, calls, ret) ==
    [op |-> op, text |-> text, top_k |-> top_k, fault |-> fault,
     raised |-> raised, steps |-> calls, ret |-> ret]

\* MockCodex.__init__
RepoInit ==
    /\ collection = <<>>
    /\ nextId = 0
    /\ beliefs = {}
    /\ current_intention = None
    /\ last = RepoCall("MockCodex", <<>>, 0, "none", "none", <<>>, <<>>)
    /\ hist = Fresh
    /\ hash \in HashTables
    /\ cleared = {}
    /\ OneInstance
    /\ embedding_model = MockEmbeddingModel
    /\ ties \in TieOrders

AddMemory ==
    /\ UNCHANGED <<env, shared, cleared>>
    /\ \E content \in Contents, fault \in AddFaults :
        \E a \in {add_memory(collection, nextId, content, NoMetadata, fault)} :
          LET stored == Len(a.collection) > Len(collection)
          IN  /\ stored => nextId < MaxAdds
              /\ collection' = a.collection
              /\ nextId' = IF stored THEN nextId + 1 ELSE nextId
              /\ last' = RepoCall("add_memory", content, 0, fault, a.raised, a.calls,
                                  IF a.raised = "none" THEN a.memory ELSE <<>>)
              /\ UNCHANGED <<beliefs, current_intention, hist>>

RetrieveMemory ==
    /\ UNCHANGED <<env, shared, cleared>>
    /\ \E text \in Contents, top_k \in RepoTopKs, fault \in RetrieveFaults :
        \E r \in {retrieve_memory(collection, text, top_k, fault)} :
            /\ last' = RepoCall("retrieve_memory", text, top_k, fault, r.raised,
                                r.calls, r.docs)
            /\ UNCHANGED <<collection, nextId, beliefs, current_intention, hist>>

GetMemoryCount ==
    /\ UNCHANGED <<env, shared, cleared>>
    /\ last' = RepoCall("get_memory_count", <<>>, 0, "none", "none", <<>>,
                        get_memory_count(collection))
    /\ UNCHANGED <<collection, nextId, beliefs, current_intention, hist>>

ClearMemories ==
    /\ UNCHANGED <<env, shared>>
    /\ cleared' = cleared \cup Ids(collection)
    /\ collection' = clear_memories(collection)
    /\ last' = RepoCall("clear_memories", <<>>, 0, "none", "none", <<>>, <<>>)
    /\ UNCHANGED <<nextId, beliefs, current_intention, hist>>

\* the process ends and MockCodex(db_path) is constructed in a new one, whose
\* str hash is salted anew
Restart ==
    /\ hash' \in HashTables
    /\ last' = RepoCall("MockCodex", <<>>, 0, "none", "none", <<>>, <<>>)
    /\ UNCHANGED <<collection, nextId, beliefs, current_intention, hist,
                   embedding_model, ties, cleared, shared>>

RepoNext ==
    \/ Restart
    \/ AddMemory
    \/ RetrieveMemory
    \/ GetMemoryCount
    \/ ClearMemories

RepoSpec == RepoInit /\ [][RepoNext]_vars

(***************************************************************************)
(* Two MockCodex instances on one storage location.  Each holds in         *)
(* self.collection the collection that the name was bound to when the      *)
(* instance opened it or last recreated it.  The index serves one call at  *)
(* a time; clear_memories is two calls, between which the others run.  A   *)
(* call through a handle whose collection is deleted raises.               *)
(***************************************************************************)
SharedCall(by, op, text, top_k, fault, raised, calls, ret) ==
    [by |-> by, op |-> op, text |-> text, top_k |-> top_k, fault |-> fault,
     raised |-> raised, steps |-> calls, ret |-> ret]

\* the collection that handle h refers to is there
Bound(h) == named # 0 /\ h = named

\* client.get_or_create_collection(name="codex_memories"): the id of the
\* collection the name is bound to, after making one when there is none
get_or_create_collection ==
    IF named # 0
    THEN [named |-> named, created |-> created]
    ELSE [named |-> created + 1, created |-> created + 1]

SharedInit ==
    /\ collection = <<>>
    /\ nextId = 0
    /\ beliefs = {}
    /\ current_intention = None
    /\ last = SharedCall(1, "MockCodex", <<>>, 0, "none", "none", <<>>, <<>>)
    /\ hist = Fresh
    /\ hash = HashDistinct
    /\ cleared = {}
    /\ OneInstance
    /\ embedding_model = MockEmbeddingModel
    \* only records of one content are equally similar here
    /\ ties = "earlier"

\* MockCodex(db_path) once more: instance i opens the location again
Open(i) ==
    /\ pc[i] = "ready"
    /\ \E g \in {get_or_create_collection} :
        /\ g.created <= MaxCollections
        /\ named' = g.named
        /\ created' = g.created
        /\ handle' = [handle EXCEPT ![i] = g.named]
    /\ last' = SharedCall(i, "MockCodex", <<>>, 0, "none", "none",
                          <<"get_or_create_collection">>, <<>>)
    /\ UNCHANGED <<collection, nextId, beliefs, current_intention, hist, env,
                   cleared, pc>>

SharedAddMemory(i) ==
    /\ pc[i] = "ready"
    /\ \E content \in {Hello, HelloAgain}, fault \in AddFaults :
        \* collection.add on a deleted collection raises
        \E a \in {add_memory(collection, nextId, content, NoMetadata,
                              IF fault = "none" /\ ~Bound(handle[i])
                              THEN "store" ELSE fault)} :
          LET stored == Len(a.collection) > Len(collection)
          IN  /\ stored => nextId < MaxAdds
              /\ collection' = a.collection
              /\ nextId' = IF stored THEN nextId + 1 ELSE nextId
              /\ last' = SharedCall(i, "add_memory", content, 0, fault, a.raised,
                                    a.calls,
                                    IF a.raised = "none" THEN a.memory ELSE <<>>)
    /\ UNCHANGED <<beliefs, current_intention, hist, env, cleared, shared>>

SharedRetrieveMemory(i) ==
    /\ pc[i] = "ready"
    /\ \E text \in {Hello, HelloAgain}, top_k \in {1, 5}, fault \in RetrieveFaults :
        \* collection.count and collection.query on a deleted collection raise
        \E r \in {retrieve_memory(collection, text, top_k,
                                   IF fault = "none" /\ ~Bound(handle[i])
                                   THEN "search" ELSE fault)} :
            last' = SharedCall(i, "retrieve_memory", text, top_k, fault, r.raised,
                               r.calls, r.docs)
    /\ UNCHANGED <<collection, nextId, beliefs, current_intention, hist, env,
                   cleared, shared>>

\* get_memory_count: collection.count(), whose exception leaves the method
SharedGetMemoryCount(i) ==
    /\ pc[i] = "ready"
    /\ last' = IF Bound(handle[i])
               THEN SharedCall(i, "get_memory_count", <<>>, 0, "none", "none",
                               <<"collection.count">>, get_memory_count(collection))
               ELSE SharedCall(i, "get_memory_count", <<>>, 0, "none", "Exception",
                               <<"collection.count">>, <<>>)
    /\ UNCHANGED <<collection, nextId, beliefs, current_intention, hist, env,
                   cleared, shared>>

\* clear_memories, first call: client.delete_collection("codex_memories"),
\* which raises when the name is bound to no collection
DeleteCollection(i) ==
    /\ pc[i] = "ready"
    /\ created < MaxCollections
    /\ IF named # 0
       THEN /\ named' = 0
            /\ collection' = clear_memories(collection)
            /\ cleared' = cleared \cup Ids(collection)
            /\ pc' = [pc EXCEPT ![i] = "deleted"]
            /\ last' = SharedCall(i, "clear_memories", <<>>, 0, "none", "none",
                                  <<"delete_collection">>, <<>>)
       ELSE /\ last' = SharedCall(i, "clear_memories", <<>>, 0, "none", "Exception",
                                  <<"delete_collection">>, <<>>)
            /\ UNCHANGED <<named, collection, cleared, pc>>
    /\ UNCHANGED <<nextId, beliefs, current_intention, hist, env, created, handle>>

\* clear_memories, second call: self.collection = get_or_create_collection(...)
GetOrCreateCollection(i) ==
    /\ pc[i] = "deleted"
    /\ \E g \in {get_or_create_collection} :
        /\ named' = g.named
        /\ created' = g.created
        /\ handle' = [handle EXCEPT ![i] = g.named]
    /\ pc' = [pc EXCEPT ![i] = "ready"]
    /\ last' = SharedCall(i, "clear_memories", <<>>, 0, "none", "none",
                          <<"delete_collection", "get_or_create_collection">>, <<>>)
    /\ UNCHANGED <<collection, nextId, beliefs, current_intention, hist, env,
                   cleared>>

SharedNext ==
    \E i \in Instances :
        \/ Open(i)
        \/ SharedAddMemory(i)
        \/ SharedRetrieveMemory(i)
        \/ SharedGetMemoryCount(i)
        \/ DeleteCollection(i)
        \/ GetOrCreateCollection(i)

SharedSpec == SharedInit /\ [][SharedNext]_vars

(***************************************************************************)
(* The Codex classes of src/codex.py and src/python/codex.py.  Their       *)
(* add_memory and retrieve_memory are the same code: no check of the       *)
(* arguments, no handler around the provider or the index, n_results =     *)
(* top_k.  They differ in the provider.  Both open "codex_memories" at     *)
(* the default location "./codex_db".                                      *)
(***************************************************************************)
Variants == {"src/codex.py", "src/python/codex.py"}

VariantContents == {Spaces, Hello}

VariantMetadata == [added_by |-> "synaptic_loop"]

\* Codex.__init__: the mock when it is asked for, when the import failed or
\* when loading the model raised; the real model otherwise
Codex_init(variant, use_mock_embeddings, loaded) ==
    IF variant = "src/codex.py"
    THEN IF use_mock_embeddings \/ ~loaded THEN TopMockEmbeddingModel
                                            ELSE SentenceTransformer
    ELSE IF use_mock_embeddings \/ ~loaded THEN OpenAIMockEmbeddingModel
                                            ELSE OpenAIEmbeddingModel

\* the md5 vectors are computed locally; the other two models can fail
CanFail(model) == model \in {SentenceTransformer, OpenAIEmbeddingModel}

\* a vector of a real model, known by the model and the text it was
\* computed from
Vector(model, text) == [model |-> model.model, dim |-> model.dim, of |-> text]

\* self.embedding_model.encode(text); OpenAIEmbeddingModel.encode catches a
\* failure of the API and returns MockEmbeddingModel().encode(text)
Codex_encode(model, text, fault) ==
    IF fault # "embed"
    THEN [raised |-> "none", vector |-> Vector(model, text), calls |-> <<"encode">>]
    ELSE IF model = OpenAIEmbeddingModel
    THEN [raised |-> "none", vector |-> Vector(OpenAIMockEmbeddingModel, text),
          calls |-> <<"encode", "print embedding failure", "mock encode">>]
    ELSE [raised |-> "Exception", calls |-> <<"encode">>]

Dimensions(coll) == {coll[i].embedding.dim : i \in 1..Len(coll)}

\* a plausible slip: vectors of any length are taken
Accepts_any(coll, vector) == TRUE

\* the index takes vectors of one length per collection, the length of the
\* first vector it was given
Accepts(coll, vector) == coll = <<>> \/ vector.dim \in Dimensions(coll)

Codex_add_memory(coll, id, content, model, fault) ==
    LET e == Codex_encode(model, content, fault)
    IN  IF e.raised # "none"
        THEN [raised |-> e.raised, collection |-> coll, calls |-> e.calls]
        ELSE LET memory == Memory(id, content, e.vector, VariantMetadata, id)
             IN  IF fault = "store" \/ ~Accepts(coll, e.vector)
                 THEN [raised |-> "Exception", collection |-> coll,
                       calls |-> e.calls \o <<"collection.add">>]
                 ELSE [raised |-> "none",
                       collection |-> Append(coll, Entry(memory)),
                       memory |-> memory,
                       calls |-> e.calls \o <<"collection.add">>]

\* the answers the index may give to a query for n of the entries: n of them,
\* none twice, in the index's order of similarity.  What the real models
\* compute is not in the source, so the order is left open.
Answers(coll, n) ==
    {[k \in 1..n |-> coll[s[k]].document] :
        s \in {t \in [1..n -> 1..Len(coll)] :
                 \A k, l \in 1..n : t[k] = t[l] => k = l}}

\* the set of outcomes of retrieve_memory: the index refuses n_results <= 0
\* and a vector of another length than the collection's, and gives what it
\* has when it has fewer than n_results
Codex_retrieve_memory(coll, text, top_k, model, fault) ==
    LET e == Codex_encode(model, text, fault)
    IN  IF e.raised # "none"
        THEN {[raised |-> e.raised, docs |-> <<>>, calls |-> e.calls]}
        ELSE IF fault = "search" \/ top_k <= 0 \/ ~Accepts(coll, e.vector)
        THEN {[raised |-> "Exception", docs |-> <<>>,
               calls |-> e.calls \o <<"collection.query">>]}
        ELSE {[raised |-> "none", docs |-> docs,
               calls |-> e.calls \o <<"collection.query">>] :
                 docs \in Answers(coll, Min(top_k, Len(coll)))}

\* SynapticLoop.process_sensory_input of src/synaptic_loop.py, on the Codex
\* of src/codex.py: no check of the text, no handler around add_memory; the
\* class keeps beliefs and no intention, _run_cycle prints
SynapticLoop_process_sensory_input(b, coll, id, text_input, model, fault) ==
    LET a == Codex_add_memory(coll, id, text_input, model, fault)
    IN  IF a.raised # "none"
        THEN [beliefs |-> b, collection |-> coll, raised |-> a.raised,
              steps |-> a.calls]
        ELSE [beliefs |-> b \cup {UserSaid(text_input)},
              collection |-> a.collection, raised |-> "none",
              steps |-> a.calls \o <<"beliefs.add input", "print state">>]

VariantCall(op, text, top_k, fault, raised, calls, ret) ==
    [op |-> op, text |-> text, top_k |-> top_k, fault |-> fault,
     raised |-> raised, steps |-> calls, ret |-> ret]

\* Codex(): the first repository on an empty location
VariantInit ==
    /\ collection = <<>>
    /\ nextId = 0
    /\ beliefs = {}
    /\ current_intention = None
    /\ last = VariantCall("Codex", <<>>, 0, "none", "none", <<>>, <<>>)
    /\ hist = Fresh
    /\ hash = HashDistinct
    /\ cleared = {}
    /\ OneInstance
    /\ embedding_model \in {Codex_init(variant, use_mock_embeddings, loaded) :
                              variant \in Variants,
                              use_mock_embeddings \in BOOLEAN,
                              loaded \in BOOLEAN}
    \* not read: Answers leaves the order open
    /\ ties = "earlier"

\* Codex() once more: the process ends and a repository of either file is
\* constructed on the same location
CodexOpen ==
    /\ \E variant \in Variants, use_mock_embeddings \in BOOLEAN, loaded \in BOOLEAN :
         embedding_model' = Codex_init(variant, use_mock_embeddings, loaded)
    /\ last' = VariantCall("Codex", <<>>, 0, "none", "none", <<>>, <<>>)
    /\ beliefs' = {}
    /\ UNCHANGED <<collection, nextId, current_intention, hist, hash,
                   ties, cleared, shared>>

CodexAddMemory ==
    /\ UNCHANGED <<env, shared, cleared>>
    /\ \E content \in VariantContents, fault \in AddFaults :
        /\ fault = "embed" => CanFail(embedding_model)
        /\ \E a \in {Codex_add_memory(collection, nextId, content,
                                      embedding_model, fault)} :
             LET stored == Len(a.collection) > Len(collection)
             IN  /\ stored => nextId < MaxAdds
                 /\ collection' = a.collection
                 /\ nextId' = IF stored THEN nextId + 1 ELSE nextId
                 /\ last' = VariantCall("add_memory", content, 0, fault, a.raised,
                                        a.calls,
                                        IF a.raised = "none" THEN a.memory ELSE <<>>)
                 /\ UNCHANGED <<beliefs, current_intention, hist>>

CodexRetrieveMemory ==
    /\ UNCHANGED <<env, shared, cleared>>
    /\ \E text \in VariantContents, top_k \in TopKs, fault \in RetrieveFaults :
        /\ fault = "embed" => CanFail(embedding_model)
        /\ \E r \in Codex_retrieve_memory(collection, text, top_k,
                                          embedding_model, fault) :
            /\ last' = VariantCall("retrieve_memory", text, top_k, fault, r.raised,
                                   r.calls, r.docs)
            /\ UNCHANGED <<collection, nextId, beliefs, current_intention, hist>>

\* the SynapticLoop of src/synaptic_loop.py, whose Codex is that of
\* src/codex.py
CodexProcessSensoryInput ==
    /\ UNCHANGED <<env, shared, cleared>>
    /\ embedding_model \in {SentenceTransformer, TopMockEmbeddingModel}
    /\ \E text \in VariantContents, fault \in AddFaults :
        /\ fault = "embed" => CanFail(embedding_model)
        /\ \E r \in {SynapticLoop_process_sensory_input(beliefs, collection, nextId,
                                                        text, embedding_model, fault)} :
             LET stored == Len(r.collection) > Len(collection)
             IN  /\ stored => nextId < MaxAdds
                 /\ collection' = r.collection
                 /\ nextId' = IF stored THEN nextId + 1 ELSE nextId
                 /\ beliefs' = r.beliefs
                 /\ last' = VariantCall("process_sensory_input", text, 0, fault,
                                        r.raised, r.steps, <<>>)
                 /\ UNCHANGED <<current_intention, hist>>

VariantNext ==
    \/ CodexOpen
    \/ CodexProcessSensoryInput
    \/ CodexAddMemory
    \/ CodexRetrieveMemory

VariantSpec == VariantInit /\ [][VariantNext]_vars

(***************************************************************************)
(* Claims about the cognitive cycle                                        *)
(***************************************************************************)
ProcessCall(call) == call.op = "process_sensory_input"

\* a text of whitespace only (what "empty after trimming" means)
IsBlank(t) == \A i \in 1..Len(t) : t[i] \in Whitespace

\* C1: when add_memory fails inside process_sensory_input, the belief set and
\* the intention after the call are what they were before the call.
C1_AddFailureLeavesAgentUnchanged ==
    [][(ProcessCall(last') /\ Did(last', "add_memory raised"))
        => (beliefs' = beliefs /\ current_intention' = current_intention)]_vars

C1_Witness ==
    /\ ProcessCall(last)
    /\ Did(last, "add_memory raised")
    /\ beliefs # {}
    /\ current_intention # None

\* C2: whenever add_memory fails inside process_sensory_input, the call ends
\* in an error visible to its caller (it does not return normally).
C2_AddFailureReachesCaller ==
    (ProcessCall(last) /\ Did(last, "add_memory raised")) => last.raised # "none"

\* C3: when retrieve_memory fails inside process_sensory_input after the add
\* has succeeded, the memory is stored (count + 1), the input belief is added
\* and no other, the intention is overwritten, and the call does not fail.
C3_RetrieveFailureIsIsolated ==
    [][(ProcessCall(last') /\ Did(last', "retrieve_memory raised"))
        => /\ Len(collection') = Len(collection) + 1
           /\ collection'[Len(collection')].document = last'.text
           /\ beliefs' = beliefs \cup {UserSaid(last'.text)}
           /\ Did(last', "current_intention =")
           /\ current_intention' = FormulateStored(Len(collection'))
           /\ last'.raised = "none"]_vars

C3_Witness ==
    /\ ProcessCall(last)
    /\ Did(last, "retrieve_memory raised")
    /\ Len(collection) = 2
    /\ beliefs = {UserSaid(Hello), RelatedMemories(1), UserSaid(HelloAgain)}
    /\ current_intention = FormulateStored(2)

\* C4 as stated: from a fresh cycle over an empty repository, after one
\* successful process_sensory_input("Hello") the belief set has exactly 1
\* entry and the intention is the variant that mentions no memory count.
C4_FirstCycleOneBeliefNoCount ==
    (hist.fresh /\ hist.cycles = <<Hello>>)
        => (Cardinality(beliefs) = 1 /\ current_intention = FormulateRelated)

\* C4 as amended: from a fresh cycle over an empty repository, after one
\* process_sensory_input("Hello") whose add and retrieve both succeed, the
\* belief set has exactly 2 entries, the input belief and the context belief
\* counting 1 related memory (the record just added), and the intention is
\* the templated statement carrying memory count 1.
C4_FirstCycleTwoBeliefsCountOne ==
    (hist.fresh /\ hist.cycles = <<Hello>>)
        => /\ beliefs = {UserSaid(Hello), RelatedMemories(1)}
           /\ Cardinality(beliefs) = 2
           /\ current_intention = FormulateStored(1)

C4_Witness ==
    /\ hist.fresh
    /\ hist.cycles = <<Hello>>
    /\ ProcessCall(last)
    /\ last.text = Hello

\* C5: from a fresh cycle over an empty repository, after the two successful
\* calls process_sensory_input("Hello"), process_sensory_input("Hello again")
\* the belief set has at least 3 entries and the intention carries count 2.
C5_SecondCycleThreeBeliefsCountTwo ==
    (hist.fresh /\ hist.cycles = <<Hello, HelloAgain>>)
        => (Cardinality(beliefs) >= 3 /\ current_intention = FormulateStored(2))

C5_Witness ==
    /\ hist.fresh
    /\ hist.cycles = <<Hello, HelloAgain>>
    /\ ProcessCall(last)
    /\ last.text = HelloAgain

\* C6: a newly constructed cycle has no beliefs and no intention, however many
\* memories the repository it opens holds.
C6_NewCycleIsIdle ==
    last.op = "construct" => (beliefs = {} /\ current_intention = None)

C6_Witness ==
    /\ last.op = "construct"
    /\ Len(collection) = 2
    /\ beliefs = {}

\* C7: process_sensory_input with a text that is blank after trimming changes
\* neither the repository nor the beliefs nor the intention, and issues no
\* add_memory and no retrieve_memory.
C7_BlankInputIsNoOp ==
    [][(ProcessCall(last') /\ IsBlank(last'.text))
        => /\ collection' = collection
           /\ beliefs' = beliefs
           /\ current_intention' = current_intention
           /\ \A i \in 1..Len(last'.steps) :
                last'.steps[i] \notin {"add_memory", "add_memory raised",
                                       "retrieve_memory", "retrieve_memory raised"}]_vars

C7_Witness ==
    /\ ProcessCall(last)
    /\ last.text = Spaces
    /\ last.steps = <<"print empty warning">>
    /\ beliefs # {}
    /\ Len(collection) > 0

\* C8: clear_beliefs empties the belief set and leaves the intention and the
\* repository (every stored record) as they were.
C8_ClearBeliefsFrame ==
    [][last'.op = "clear_beliefs"
        => /\ beliefs' = {}
           /\ current_intention' = current_intention
           /\ collection' = collection]_vars

C8_Witness ==
    /\ last.op = "clear_beliefs"
    /\ beliefs = {}
    /\ current_intention = FormulateStored(2)
    /\ Len(collection) = 2

\* C9: every operation other than clear_beliefs leaves the belief set a
\* superset of what it was: process_sensory_input when it succeeds and when
\* it fails, the accessors, and the repository's own operations.
C9_BeliefsAppendOnly ==
    [][last'.op \in {"process_sensory_input", "get_beliefs", "get_current_intention",
                     "add_memory", "retrieve_memory", "get_memory_count",
                     "clear_memories"}
        => beliefs \subseteq beliefs']_vars

C9_Witness ==
    /\ last.op = "clear_memories"
    /\ collection = <<>>
    /\ Cardinality(beliefs) >= 3

\* C10: every process_sensory_input that runs the cycle overwrites the
\* intention with the templated statement carrying the repository's count as
\* read at deliberation, which is the count before the call plus 1.
C10_IntentionCarriesCount ==
    [][(ProcessCall(last') /\ Did(last', "current_intention ="))
        => /\ current_intention' = FormulateStored(get_memory_count(collection'))
           /\ get_memory_count(collection') = get_memory_count(collection) + 1]_vars

\* one input processed by this agent, two memories in the repository
C10_Witness ==
    /\ ProcessCall(last)
    /\ Did(last, "current_intention =")
    /\ Cardinality({b \in beliefs : b.template = UserSaid(<<>>).template}) = 1
    /\ current_intention = FormulateStored(2)

\* C11: get_beliefs returns an independent copy: adding a statement to the
\* returned set, or removing one from it, leaves the agent's belief set as it
\* was, and every get_beliefs call returns the agent's belief set.
C11_ReturnedBeliefsAreACopy ==
    [][/\ last'.op = "mutate returned beliefs" => beliefs' = beliefs
       /\ last'.op = "get_beliefs" => last'.ret.items = beliefs']_vars

C11_Witness ==
    /\ last.op = "mutate returned beliefs"
    /\ beliefs = {UserSaid(Hello), RelatedMemories(1)}
    /\ last.ret.items = {RelatedMemories(1)}

(***************************************************************************)
(* Claims about the repository                                             *)
(***************************************************************************)
AddCall(call) == call.op = "add_memory"

RetrieveCall(call) == call.op = "retrieve_memory"

\* C12: a successful add_memory of a content that is not blank makes the
\* count one more than it was, also when the same content is stored already,
\* and returns a Memory whose content is the argument.
C12_AddCountsOneMore ==
    [][(AddCall(last') /\ last'.raised = "none")
        => /\ ~IsBlank(last'.text)
           /\ get_memory_count(collection') = get_memory_count(collection) + 1
           /\ last'.ret.content = last'.text]_vars

\* the same content stored twice
C12_Witness ==
    /\ AddCall(last)
    /\ last.raised = "none"
    /\ last.ret.content = Hello
    /\ Len(collection) = 2
    /\ collection[1].document = Hello
    /\ collection[2].document = Hello

\* C13: retrieve_memory(content, top_k = 1) issued right after a successful
\* add_memory(content) returns the one-element sequence <<content>>, whatever
\* is stored besides.
C13_RoundTrip ==
    [][(/\ AddCall(last) /\ last.raised = "none"
        /\ RetrieveCall(last') /\ last'.text = last.text
        /\ last'.top_k = 1 /\ last'.fault = "none")
        => (last'.raised = "none" /\ last'.ret = <<last.text>>)]_vars

\* C14: add_memory with a blank content and retrieve_memory with a blank
\* query fail with ValueError before any call of the embedding provider or
\* the index, and leave every stored record as it was.
C14_BlankInputRejected ==
    [][((AddCall(last') \/ RetrieveCall(last')) /\ IsBlank(last'.text))
        => /\ last'.raised = "ValueError"
           /\ last'.steps = <<>>
           /\ collection' = collection]_vars

C14_Witness ==
    /\ AddCall(last)
    /\ last.text = Spaces
    /\ last.raised = "ValueError"
    /\ Len(collection) = 2

\* C15: retrieve_memory with top_k <= 0 and a query that is not blank fails
\* with ValueError in every repository state, without a call of the
\* embedding provider or the index, and leaves the repository as it was.
C15_NonPositiveTopKRejected ==
    [][(RetrieveCall(last') /\ ~IsBlank(last'.text) /\ last'.top_k <= 0)
        => /\ last'.raised = "ValueError"
           /\ last'.steps = <<>>
           /\ collection' = collection]_vars

C15_Witness ==
    /\ RetrieveCall(last)
    /\ last.text = Hello
    /\ last.top_k = -1
    /\ last.raised = "ValueError"
    /\ Len(collection) = 1

\* C16: on a repository of n >= 1 records, retrieve_memory with a query that
\* is not blank and a positive top_k, the provider and the index being up,
\* does not raise and returns min(top_k, n) results: n when top_k > n.
C16_TopKClamped ==
    (/\ RetrieveCall(last) /\ ~IsBlank(last.text) /\ last.top_k > 0
     /\ last.fault = "none" /\ get_memory_count(collection) >= 1)
        => /\ last.raised = "none"
           /\ Len(last.ret) = Min(last.top_k, get_memory_count(collection))
           /\ last.top_k > get_memory_count(collection)
                => Len(last.ret) = get_memory_count(collection)

C16_Witness ==
    /\ RetrieveCall(last)
    /\ last.top_k = 5
    /\ get_memory_count(collection) = 2
    /\ Len(last.ret) = 2

\* C17: on an empty repository, retrieve_memory with a query that is not
\* blank and a positive top_k, the provider and the index being up, returns
\* the empty sequence and does not raise.
C17_EmptyRepositoryReturnsEmpty ==
    (/\ RetrieveCall(last) /\ ~IsBlank(last.text) /\ last.top_k > 0
     /\ last.fault = "none" /\ get_memory_count(collection) = 0)
        => (last.raised = "none" /\ last.ret = <<>>)

\* C18: clear_memories leaves count 0 whatever was stored; no record removed
\* by a clear is in the repository afterwards, and every retrieve_memory
\* returns documents of records that are in the repository; the first
\* add_memory after a clear makes the count 1, as on a new repository.
C18_ClearSemantics ==
    [][/\ last'.op = "clear_memories" => get_memory_count(collection') = 0
       /\ Ids(collection') \cap cleared' = {}
       /\ RetrieveCall(last')
            => \A k \in 1..Len(last'.ret) :
                 \E i \in 1..Len(collection') :
                    /\ collection'[i].document = last'.ret[k]
                    /\ collection'[i].id \notin cleared'
       /\ (last.op = "clear_memories" /\ AddCall(last') /\ last'.raised = "none")
            => /\ get_memory_count(collection') = 1
               /\ collection' = <<Entry(last'.ret)>>]_vars

\* a content that a clear removed is stored again, as a new record, and found
C18_Witness ==
    /\ RetrieveCall(last)
    /\ last.ret = <<Hello>>
    /\ cleared = {0}
    /\ Len(collection) = 1
    /\ collection[1].document = Hello
    /\ collection[1].id = 1

\* C19: a get_memory_count or retrieve_memory of one instance that runs
\* between the two calls of another instance's clear_memories, the provider
\* and the index being up, does not fail: it never finds the collection
\* missing.  (A retrieve_memory that finds an empty repository fails for a
\* reason of its own, see C17, and is left aside.)
C19_ReadersDuringClearDoNotFail ==
    (/\ last.fault = "none"
     /\ \/ last.op = "get_memory_count"
        \/ RetrieveCall(last) /\ collection # <<>>
     /\ \E j \in Instances \ {last.by} : pc[j] = "deleted")
        => last.raised = "none"

\* C20: an add_memory during which the embedding provider or the index write
\* fails ends in an error and leaves the stored records, and so the count, as
\* they were.
C20_FailedAddLeavesNothing ==
    [][(AddCall(last') /\ last'.fault \in {"embed", "store"})
        => /\ last'.raised # "none"
           /\ collection' = collection
           /\ get_memory_count(collection') = get_memory_count(collection)]_vars

C20_Witness ==
    /\ AddCall(last)
    /\ last.text = HelloAgain
    /\ last.fault = "store"
    /\ last.raised = "Exception"
    /\ Did(last, "collection.add")
    /\ Len(collection) = 1

\* C24: the records of the collection have pairwise different ids; the id
\* of a record that add_memory stores is none of the ids stored before, the
\* record is put after the stored ones, and no call changes a record that
\* stays in the collection.
C24_UniqueIds ==
    [][/\ \A i, j \in 1..Len(collection') :
            collection'[i].id = collection'[j].id => i = j
       /\ (AddCall(last') /\ last'.raised = "none")
            => /\ last'.ret.id \notin Ids(collection)
               /\ collection' = Append(collection, Entry(last'.ret))
       /\ last'.op # "clear_memories"
            => /\ Len(collection') >= Len(collection)
               /\ \A i \in 1..Len(collection) : collection'[i] = collection[i]]_vars

\* the same content stored twice, as two records
C24_Witness ==
    /\ AddCall(last)
    /\ last.raised = "none"
    /\ Len(collection) = 2
    /\ collection[1].document = HelloAgain
    /\ collection[2].document = HelloAgain
    /\ collection[1].id # collection[2].id
    /\ last.ret.id = collection[2].id

\* the answers of n results that are the n most similar entries to the
\* query, most similar first and, among equally similar ones, the
\* earlier-inserted first
Ranked(coll, q, n) ==
    LET sim == Similarities(coll, q)
        before(i, j) == \/ MoreSimilar(sim[i], sim[j])
                        \/ ~MoreSimilar(sim[j], sim[i]) /\ i < j
    IN  {[k \in 1..n |-> coll[s[k]].document] :
            s \in {t \in [1..n -> 1..Len(coll)] :
                     /\ \A k, l \in 1..n : k < l => before(t[k], t[l])
                     /\ \A j \in 1..Len(coll) :
                          (\A k \in 1..n : t[k] # j)
                              => \A k \in 1..n : before(t[k], j)}}

\* C25: a retrieve_memory that succeeds returns the contents of the top_k
\* records most similar to the query by cosine, the most similar first and,
\* of two equally similar records, the one inserted earlier first.
C25_NearestFirstTiesByInsertion ==
    (RetrieveCall(last) /\ last.raised = "none")
        => last.ret \in Ranked(collection, encode(last.text), Len(last.ret))

\* C30: of an add_memory of one instance and a clear_memories of another
\* that run interleaved on one storage location, both end without an error,
\* the provider and the index being up: the add_memory that runs between
\* the two calls of the other instance's clear_memories does not fail, and
\* the clear_memories does not fail either.
C30_AddDuringClearDoesNotFail ==
    /\ (/\ AddCall(last)
        /\ last.fault = "none"
        /\ \E j \in Instances \ {last.by} : pc[j] = "deleted")
          => last.raised = "none"
    /\ (/\ last.op = "clear_memories"
        /\ \E j \in Instances \ {last.by} : pc[j] = "deleted")
          => last.raised = "none"

\* C31: encode is a function of the text alone, in whichever process it
\* runs: the vector of a stored record is the vector that encode returns
\* for the record's content, and so no stored record is nearer to the
\* vector of that content than the record itself, also after a restart.
C31_EncodeIsDeterministic ==
    \A i \in 1..Len(collection) :
        LET q == encode(collection[i].document)
        IN  /\ collection[i].embedding = q
            /\ \A j \in 1..Len(collection) :
                 ~MoreSimilar(Similarity(q, collection[j].embedding),
                              Similarity(q, collection[i].embedding))

\* C32: get_memory_count does not fail and returns the number of stored
\* records, 0 for none, also on a repository that this or another instance
\* on the same storage location has cleared.  (Stated for the calls that run
\* while no clear_memories is under way; for those that run in between see
\* C19.)
C32_CountNeverFails ==
    (last.op = "get_memory_count" /\ \A j \in Instances : pc[j] = "ready")
        => /\ last.raised = "none"
           /\ last.ret = Len(collection)

(***************************************************************************)
(* Claims about the embedding providers                                    *)
(***************************************************************************)
\* C21: an add_memory or a retrieve_memory during which the embedding
\* provider fails ends in an error, and the vector of a record that
\* add_memory has stored was computed by the model the repository is
\* configured with, never by another one.
C21_ProviderFailureSurfaced ==
    /\ ((AddCall(last) \/ RetrieveCall(last)) /\ last.fault = "embed")
          => last.raised # "none"
    /\ (AddCall(last) /\ last.raised = "none")
          => /\ last.ret.embedding.model = embedding_model.model
             /\ collection[Len(collection)].embedding.model = embedding_model.model

C34_BlankInputGuardedEverywhere ==
    /\ (AddCall(last) /\ IsBlank(last.text)) => last.raised # "none"
    /\ (ProcessCall(last) /\ IsBlank(last.text)) => ~Did(last, "collection.add")
    /\ \A i \in 1..Len(collection) : ~IsBlank(collection[i].document)
    /\ \A x \in beliefs : x.template = UserSaid(x.text).template => ~IsBlank(x.text)

(***************************************************************************)
(* Claims about the agent over time                                        *)
(***************************************************************************)
\* a retrieve_memory for the content that asks for as many results as
\* there are records returns it
Retrievable(coll, content) ==
    \E r \in {retrieve_memory(coll, content, get_memory_count(coll), "none")} :
        /\ r.raised = "none"
        /\ \E k \in 1..Len(r.docs) : r.docs[k] = content

\* C23: when the agent is discarded and a new one is constructed on the same
\* storage location, the count is what it was, every content stored before
\* can still be retrieved, the new agent's belief set is empty and it has no
\* intention.
C23_RecordsSurviveRestart ==
    [][last'.op = "construct"
        => /\ get_memory_count(collection') = get_memory_count(collection)
           /\ \A i \in 1..Len(collection) :
                Retrievable(collection', collection[i].document)
           /\ beliefs' = {}
           /\ current_intention' = None]_vars

C23_Witness ==
    /\ last.op = "construct"
    /\ get_memory_count(collection) = 2
    /\ Retrievable(collection, Hello)
    /\ Retrievable(collection, HelloAgain)
    /\ beliefs = {}
    /\ current_intention = None

Idle == beliefs = {} /\ current_intention = None

Active == Cardinality(beliefs) >= 1 /\ current_intention # None

\* a process_sensory_input that stored its input and returned normally
Successful(call) ==
    /\ ProcessCall(call)
    /\ call.raised = "none"
    /\ Did(call, "add_memory")

\* C26: the agent is Idle at construction, a successful
\* process_sensory_input leaves it Active, and no process_sensory_input,
\* successful or not, takes it from Active to a state without beliefs or
\* without an intention.
C26_IdleThenActive ==
    /\ [](last.op = "construct" => Idle)
    /\ [][/\ Successful(last') => Active'
          /\ (ProcessCall(last') /\ Active) => Active']_vars

C26_Witness ==
    /\ Successful(last)
    /\ hist.cycles = <<Hello, HelloAgain>>
    /\ Cardinality(beliefs) = 4
    /\ current_intention = FormulateStored(2)

\* in the call, every step a is preceded by a step b
After(call, a, b) ==
    \A i \in 1..Len(call.steps) :
        call.steps[i] = a => \E j \in 1..(i - 1) : call.steps[j] = b

\* C27: in one process_sensory_input the memory is added before any belief
\* is, the input belief is added before the related memories are looked up
\* (so the lookup finds the record just stored, and a lookup that fails
\* leaves the input belief in place), and the intention is assigned only
\* after the belief steps.
C27_StepOrder ==
    ProcessCall(last)
        => /\ After(last, "beliefs.add input", "add_memory")
           /\ After(last, "beliefs.add context", "add_memory")
           /\ After(last, "retrieve_memory", "beliefs.add input")
           /\ After(last, "retrieve_memory raised", "beliefs.add input")
           /\ After(last, "beliefs.add context", "retrieve_memory")
           /\ After(last, "current_intention =", "beliefs.add input")
           /\ After(last, "current_intention =", "beliefs.add context")
                \/ After(last, "current_intention =", "retrieve_memory raised")
           /\ Did(last, "beliefs.add context")
                => RelatedMemories(Min(ContextTopK, get_memory_count(collection)))
                       \in beliefs
           /\ Did(last, "retrieve_memory raised") => UserSaid(last.text) \in beliefs

C27_Witness ==
    /\ ProcessCall(last)
    /\ last.steps = <<"add_memory", "beliefs.add input", "retrieve_memory",
                      "beliefs.add context", "get_memory_count",
                      "current_intention =", "print state">>
    /\ beliefs = {UserSaid(Hello), RelatedMemories(1)}

PairwiseDistinct(texts) ==
    \A i, j \in 1..Len(texts) : texts[i] = texts[j] => i = j

\* C28: a successful process_sensory_input of a text that has not been
\* processed since the belief set was last emptied, which is a text whose
\* input belief is not in the set, makes the belief set strictly larger; and
\* after n successful calls with pairwise different texts from an empty
\* belief set the set has at least n statements.
C28_NewTextGrowsBeliefs ==
    /\ []((hist.fresh /\ PairwiseDistinct(hist.cycles))
            => Cardinality(beliefs) >= Len(hist.cycles))
    /\ [][(Successful(last') /\ UserSaid(last'.text) \notin beliefs)
            => Cardinality(beliefs') > Cardinality(beliefs)]_vars

C28_Witness ==
    /\ Successful(last)
    /\ hist.cycles = <<HelloAgain, Hello>>
    /\ UserSaid(HelloAgain) \in beliefs
    /\ UserSaid(Hello) \in beliefs
    /\ Cardinality(beliefs) >= 2

\* the input beliefs for the text that the set b holds
InputBeliefs(b, text) ==
    {x \in b : x.template = UserSaid(text).template /\ x.text = text}

\* C29: a successful process_sensory_input of a text whose input belief is
\* in the belief set adds no further input belief: the set keeps its
\* statements and gains at most one, a context belief; the repository stores
\* one more record, of that text, and the count is one higher.
C29_SameTextOneInputBelief ==
    [][(Successful(last') /\ InputBeliefs(beliefs, last'.text) # {})
        => /\ beliefs \subseteq beliefs'
           /\ beliefs' \ beliefs \subseteq {RelatedMemories(n) : n \in 1..ContextTopK}
           /\ Cardinality(beliefs') <= Cardinality(beliefs) + 1
           /\ InputBeliefs(beliefs', last'.text) = {UserSaid(last'.text)}
           /\ get_memory_count(collection') = get_memory_count(collection) + 1
           /\ collection'[Len(collection')].document = last'.text]_vars

\* Hello processed twice: one input belief, two records
C29_Witness ==
    /\ Successful(last)
    /\ hist.cycles = <<Hello, Hello>>
    /\ beliefs = {UserSaid(Hello), RelatedMemories(1), RelatedMemories(2)}
    /\ get_memory_count(collection) = 2

\* the metadata of the record stored last
StoredMetadata == collection[Len(collection)].metadata

\* C33: the record that process_sensory_input stores carries the metadata
\* type = "sensory_input" and source = "external", besides the timestamp,
\* and nothing else.
C33_SensoryMetadataExternal ==
    (ProcessCall(last) /\ Did(last, "add_memory"))
        => /\ DOMAIN StoredMetadata = {"type", "source", "timestamp"}
           /\ StoredMetadata.type = "sensory_input"
           /\ StoredMetadata.source = "external"

\* C33, amended: the record that process_sensory_input stores carries the
\* metadata type = "sensory_input" and source = "user_input", besides the
\* timestamp, and nothing else.
C33_SensoryMetadataUserInput ==
    (ProcessCall(last) /\ Did(last, "add_memory"))
        => /\ DOMAIN StoredMetadata = {"type", "source", "timestamp"}
           /\ StoredMetadata.type = "sensory_input"
           /\ StoredMetadata.source = "user_input"
           /\ collection[Len(collection)].document = last.text

C33_Witness ==
    /\ ProcessCall(last)
    /\ Did(last, "add_memory")
    /\ last.text = HelloAgain
    /\ get_memory_count(collection) = 1
    /\ StoredMetadata.source = "user_input"

(***************************************************************************)
(* Claims about the cycle under failures of the repository                 *)
(***************************************************************************)
\* C35: the intention is never the "await input" statement: a
\* process_sensory_input that assigns the intention does so with beliefs in
\* the set, the input belief of the same call among them, and assigns one of
\* the two "Formulate a response" statements, also after clear_beliefs.
C35_NeverAwaitInput ==
    /\ current_intention # AwaitInput
    /\ (ProcessCall(last) /\ Did(last, "current_intention ="))
          => /\ UserSaid(last.text) \in beliefs
             /\ \/ current_intention = FormulateRelated
                \/ current_intention = FormulateStored(get_memory_count(collection))

\* a cycle after clear_beliefs: the set holds what this cycle added only
C35_Witness ==
    /\ Successful(last)
    /\ last.text = Hello
    /\ beliefs = {UserSaid(Hello), RelatedMemories(2)}
    /\ current_intention = FormulateStored(2)

ContextBeliefs(b) == {x \in b : x.template = RelatedMemories(0).template}

\* C36: when the lookup inside process_sensory_input succeeds it returns at
\* least one record, so the context belief is added, and its count is
\* min(3, records stored after the add); the context beliefs are therefore
\* among three, and the belief set holds at most the input beliefs of the
\* valid texts and three more.
C36_ContextBeliefCount ==
    /\ (ProcessCall(last) /\ Did(last, "retrieve_memory"))
          => /\ Did(last, "beliefs.add context")
             /\ RelatedMemories(Min(3, get_memory_count(collection))) \in beliefs
    /\ ContextBeliefs(beliefs) \subseteq {RelatedMemories(n) : n \in 1..3}
    /\ Cardinality(beliefs)
          <= Cardinality({t \in Texts : UserSaid(t) \in beliefs /\ ~IsBlank(t)}) + 3

\* the fourth record is stored and the lookup returns three of the four
C36_Witness ==
    /\ ProcessCall(last)
    /\ Did(last, "beliefs.add context")
    /\ get_memory_count(collection) = 4
    /\ ContextBeliefs(beliefs) = {RelatedMemories(n) : n \in 1..3}

\* C37: in every state of the agent an absent intention goes with an empty
\* belief set, whichever repository call of process_sensory_input has failed.
C37_NoIntentionNoBeliefs ==
    current_intention = None => beliefs = {}

\* C38: process_sensory_input is all or nothing for the state of the agent:
\* either the input is stored, its belief is in the set and the intention is
\* assigned, or the beliefs and the intention are as they were before the
\* call, whichever repository call other than the lookup has failed.
C38_AllOrNothing ==
    [][ProcessCall(last')
          => \/ /\ get_memory_count(collection') > get_memory_count(collection)
                /\ UserSaid(last'.text) \in beliefs'
                /\ Did(last', "current_intention =")
             \/ /\ beliefs' = beliefs
                /\ current_intention' = current_intention]_vars

(***************************************************************************)
(* Claims about two instances after a clear_memories                       *)
(***************************************************************************)
\* C39: with two instances on one storage location and no clear_memories
\* under way, so also after one instance has completed its clear_memories,
\* an add_memory and a retrieve_memory with valid arguments (the retrieve
\* on a repository that holds a record) and a get_memory_count through
\* either instance succeed, the provider and the index being up, and act on the one collection of the location: the add is
\* stored in it and the count is the number of its records.
C39_OtherInstanceFollowsClear ==
    (/\ \A j \in Instances : pc[j] = "ready"
     /\ last.fault = "none"
     /\ \/ AddCall(last) /\ ~IsBlank(last.text)
        \/ /\ RetrieveCall(last) /\ ~IsBlank(last.text)
           /\ last.top_k > 0 /\ collection # <<>>
        \/ last.op = "get_memory_count")
        => /\ last.raised = "none"
           /\ AddCall(last) => \E i \in 1..Len(collection) :
                                  collection[i].document = last.text
           /\ last.op = "get_memory_count" => last.ret = Len(collection)

====
